---------------------------- MODULE Spec2Model ----------------------------
(***************************************************************************)
(* Model of array_bench (src/main.rs): a benchmark harness that drives     *)
(* seven sequence containers through Create / Ordered-Scan / Drain phases, *)
(* seven trials each, and reports a trimmed average per phase.             *)
(*                                                                         *)
(* A Duration is a natural number of clock ticks; TicksPerMilli ticks make *)
(* one millisecond, so as_millis truncates as it does in the program.      *)
(* The monotonic clock advances one tick with every step of the program,   *)
(* so an elapsed time is the number of steps taken inside its window.      *)
(* Sums stay far below 2^64 within the bounds, so the u64 accumulator of   *)
(* compute_average never wraps here.                                       *)
(*                                                                         *)
(* Two specifications share the module:                                    *)
(*   Spec     the whole program, main() and the benchmark_* functions;     *)
(*   SpecAvg  compute_average applied to bounded inputs.                   *)
(* FairSpec is Spec with the progress a sequential program makes.          *)
(***************************************************************************)
EXTENDS Integers, Sequences, FiniteSets, TLC

VARIABLES
    pc,          \* position of the single thread of control
    size,        \* main: let size
    variant,     \* which of the seven measurement blocks of main is running
    coll,        \* the container under test
    next,        \* loop variable: value of the push loop, index of the scan
    start,       \* let start = Instant::now()
    now,         \* the monotonic clock
    create,      \* let create = start.elapsed()
    ordered,     \* let ordered = start.elapsed()
    popall,      \* let popall = start.elapsed()
    times,       \* main: let mut times: Vec<Times>
    stdout,      \* lines printed so far
    exit,        \* "running", "normal" or "abnormal" (panic)
    mismatch,    \* history: some iterator yield differed from its index
    defect,      \* history: some iterator yield differed from the stored element
    ctorAt,      \* history: clock value when coll was constructed
    createAt,    \* history: clock value when the Create timer was started
    popped,      \* history: values removed by pop in the current trial
    phases,      \* history: phases entered in the current trial
    runs,        \* history: benchmark_* calls made per variant
    avgCalls,    \* history: the compute_average calls of display_average_times
    apc,         \* SpecAvg: position
    arg,         \* SpecAvg: the Vec<Duration> handed to compute_average
    outcome,     \* SpecAvg: what compute_average did with arg
    alt,         \* SpecAvg: arg with its lowest and two highest values moved
    altOutcome   \* SpecAvg: what compute_average did with alt

vars == <<pc, size, variant, coll, next, start, now, create, ordered, popall,
          times, stdout, exit, mismatch, defect, ctorAt, createAt, popped,
          phases, runs, avgCalls, apc, arg, outcome, alt, altOutcome>>

harnessVars == <<pc, size, variant, coll, next, start, now, create, ordered,
                 popall, times, stdout, exit, mismatch, defect, ctorAt,
                 createAt, popped, phases, runs, avgCalls>>

avgVars == <<apc, arg, outcome, alt, altOutcome>>

---------------------------------------------------------------------------
(* Bounds of the model *)

MaxSize == 3
MaxLen == 4
MaxDur == 4
MaxDelta == 1
TicksPerMilli == 2

(* Constants of the program *)

Trials == 7
NumVariants == 7

---------------------------------------------------------------------------
(* Durations and compute_average *)

as_millis(d) == d \div TicksPerMilli

RECURSIVE Insert(_, _)
Insert(x, s) ==
    IF s = <<>> THEN <<x>>
    ELSE IF x <= Head(s) THEN <<x>> \o s
    ELSE <<Head(s)>> \o Insert(x, Tail(s))

\* times.sort(), as an insertion sort; the singleton set binds the sorted
\* tail once, so that it is computed once per element
RECURSIVE SortAsc(_)
SortAsc(s) ==
    IF s = <<>> THEN <<>>
    ELSE CHOOSE r \in {Insert(Head(s), t) : t \in {SortAsc(Tail(s))}} : TRUE

Unsorted(s) == s

sort(s) == SortAsc(s)

\* .iter().fold(acc, |acc, x| acc + x.as_millis() as u64) over s[from..to]
RECURSIVE fold_millis(_, _, _, _)
fold_millis(acc, s, from, to) ==
    IF from > to THEN acc
    ELSE fold_millis(acc + as_millis(s[from]), s, from + 1, to)

KeepsOneHigh(len) ==
    IF len < 2
    THEN [ok |-> FALSE, from |-> 0, to |-> 0]
    ELSE [ok |-> TRUE, from |-> 2, to |-> len - 1]

\* times[1..times.len() - 2]: the 1-based positions kept, or ok = FALSE where
\* the subtraction or the slicing panics
SliceBounds(len) ==
    IF len < 2 \/ 1 > len - 2
    THEN [ok |-> FALSE, from |-> 0, to |-> 0]
    ELSE [ok |-> TRUE, from |-> 2, to |-> len - 2]

Divisor(len) == len - 2

Panicked == [panic |-> TRUE, value |-> 0]

compute_average(ts) ==
    LET sorted == sort(ts)
        b == SliceBounds(Len(sorted))
    IN  IF ~b.ok THEN Panicked
        ELSE LET total == fold_millis(0, sorted, b.from, b.to)
                 d == Divisor(Len(sorted))
             IN  IF d = 0 THEN Panicked
                 ELSE [panic |-> FALSE, value |-> total \div d]

---------------------------------------------------------------------------
(* The containers: push, pop, is_empty, iter *)

NoColl == [ctor |-> "none", items |-> <<>>]

Ctor(v) ==
    CASE v = 1 -> "Vec::new"
      [] v = 2 -> "SegmentArray::new"
      [] v = 3 -> "BrodnikArray::new"
      [] v = 4 -> "ExtensibleArray::new"
      [] v = 5 -> "GeneralArray::new"
      [] v = 6 -> "GeneralArray::with_r(4)"
      [] OTHER -> "SimpleArray::new"

Label(v) ==
    CASE v = 1 -> "measuring std::vec::Vec..."
      [] v = 2 -> "measuring SegmentArray..."
      [] v = 3 -> "measuring OptimalArray..."
      [] v = 4 -> "measuring ExtensibleArray..."
      [] v = 5 -> "measuring GeneralArray (r=3)..."
      [] v = 6 -> "creating GeneralArray (r=4)..."
      [] OTHER -> "measuring SimpleArray..."

\* the container is built inside benchmark_*, once per trial
Fresh(v) == v \in 1..4

\* benchmark_* builds the container before it starts the Create timer
CtorFirst(v) == v \in 2..4

New(v) == [ctor |-> Ctor(v), items |-> <<>>]

push(c, x) == [c EXCEPT !.items = Append(@, x)]

EmptyAtOne(c) == Len(c.items) <= 1

is_empty(c) == c.items = <<>>

PopsFirst(c) == [c EXCEPT !.items = Tail(@)]

pop(c) == [c EXCEPT !.items = SubSeq(@, 1, Len(@) - 1)]

popValue(c) == c.items[Len(c.items)]

\* what the iterator may produce at position i (0-based): the stored element,
\* or, for a defective container, some other value
Yields(c, i) == {c.items[i + 1], c.items[i + 1] + 1}

AssertOff(value, index) == TRUE

assert_eq(value, index) == value = index

KeepTimes(old) == old

NewTimes(old) == <<>>

OneTrialShort(n) == n < Trials - 1

MoreTrials(n) == n < Trials

---------------------------------------------------------------------------
(* Spec: main and the benchmark_* functions *)

Init ==
    /\ pc = "announce"
    /\ size \in 0..MaxSize
    /\ variant = 1
    /\ coll = NoColl
    /\ next = 0
    /\ start = 0
    /\ now = 0
    /\ create = 0
    /\ ordered = 0
    /\ popall = 0
    /\ times = <<>>
    /\ stdout = <<>>
    /\ exit = "running"
    /\ mismatch = FALSE
    /\ defect = FALSE
    /\ ctorAt = 0
    /\ createAt = 0
    /\ popped = <<>>
    /\ phases = <<>>
    /\ runs = [v \in 1..NumVariants |-> 0]
    /\ avgCalls = <<>>
    /\ apc = "idle"
    /\ arg = <<>>
    /\ outcome = Panicked
    /\ alt = <<>>
    /\ altOutcome = Panicked

Tick == now' = now + 1

\* println!("measuring ..."), the reused container if any, let mut times
Announce ==
    /\ pc = "announce"
    /\ stdout' = Append(stdout, [kind |-> "progress", text |-> Label(variant)])
    /\ IF Fresh(variant)
       THEN UNCHANGED <<coll, ctorAt>>
       ELSE coll' = New(variant) /\ ctorAt' = now
    /\ times' = NewTimes(times)
    /\ pc' = "loop"
    /\ Tick
    /\ UNCHANGED <<size, variant, next, start, create, ordered, popall, exit,
                   mismatch, defect, createAt, popped, phases, runs, avgCalls>>
    /\ UNCHANGED avgVars

\* for _ in 0..7 { times.push(benchmark_*(size)) }: the call
Call ==
    /\ pc = "loop"
    /\ MoreTrials(Len(times))
    /\ pc' = "entry"
    /\ runs' = [runs EXCEPT ![variant] = @ + 1]
    /\ popped' = <<>>
    /\ phases' = <<>>
    /\ Tick
    /\ UNCHANGED <<size, variant, coll, next, start, create, ordered, popall,
                   times, stdout, exit, mismatch, defect, ctorAt, createAt, avgCalls>>
    /\ UNCHANGED avgVars

\* let mut coll = ...::new() inside benchmark_*
Construct ==
    /\ Fresh(variant)
    /\ \/ pc = "entry" /\ CtorFirst(variant)
       \/ pc = "entry2" /\ ~CtorFirst(variant)
    /\ coll' = New(variant)
    /\ ctorAt' = now
    /\ pc' = IF CtorFirst(variant) THEN "entry2" ELSE "create"
    /\ Tick
    /\ UNCHANGED <<size, variant, next, start, create, ordered, popall, times,
                   stdout, exit, mismatch, defect, createAt, popped, phases, runs,
                   avgCalls>>
    /\ UNCHANGED avgVars

\* let start = Instant::now() ahead of the push loop
StartCreate ==
    /\ \/ pc = "entry" /\ ~CtorFirst(variant)
       \/ pc = "entry2" /\ CtorFirst(variant)
    /\ start' = now
    /\ createAt' = now
    /\ next' = 0
    /\ phases' = Append(phases, "create")
    /\ pc' = IF Fresh(variant) /\ ~CtorFirst(variant) THEN "entry2" ELSE "create"
    /\ Tick
    /\ UNCHANGED <<size, variant, coll, create, ordered, popall, times, stdout,
                   exit, mismatch, defect, ctorAt, popped, runs, avgCalls>>
    /\ UNCHANGED avgVars

\* for value in 0..size { coll.push(value) }
Push ==
    /\ pc = "create"
    /\ next < size
    /\ coll' = push(coll, next)
    /\ next' = next + 1
    /\ Tick
    /\ UNCHANGED <<pc, size, variant, start, create, ordered, popall, times,
                   stdout, exit, mismatch, defect, ctorAt, createAt, popped, phases,
                   runs, avgCalls>>
    /\ UNCHANGED avgVars

\* let create = start.elapsed(); let start = Instant::now()
EndCreate ==
    /\ pc = "create"
    /\ ~(next < size)
    /\ create' = now - start
    /\ start' = now
    /\ next' = 0
    /\ phases' = Append(phases, "ordered")
    /\ pc' = "ordered"
    /\ Tick
    /\ UNCHANGED <<size, variant, coll, ordered, popall, times, stdout, exit,
                   mismatch, defect, ctorAt, createAt, popped, runs, avgCalls>>
    /\ UNCHANGED avgVars

\* for (index, value) in coll.iter().enumerate() { assert_eq!(*value, index) }
ScanStep ==
    /\ pc = "ordered"
    /\ next < Len(coll.items)
    /\ \E value \in Yields(coll, next) :
          /\ mismatch' = (mismatch \/ value # next)
          /\ defect' = (defect \/ value # coll.items[next + 1])
          /\ IF assert_eq(value, next)
             THEN /\ next' = next + 1
                  /\ UNCHANGED <<pc, exit>>
             ELSE /\ pc' = "panicked"
                  /\ exit' = "abnormal"
                  /\ UNCHANGED next
    /\ Tick
    /\ UNCHANGED <<size, variant, coll, start, create, ordered, popall, times,
                   stdout, ctorAt, createAt, popped, phases, runs, avgCalls>>
    /\ UNCHANGED avgVars

\* let ordered = start.elapsed(); let start = Instant::now()
EndOrdered ==
    /\ pc = "ordered"
    /\ ~(next < Len(coll.items))
    /\ ordered' = now - start
    /\ start' = now
    /\ phases' = Append(phases, "drain")
    /\ pc' = "drain"
    /\ Tick
    /\ UNCHANGED <<size, variant, coll, next, create, popall, times, stdout,
                   exit, mismatch, defect, ctorAt, createAt, popped, runs, avgCalls>>
    /\ UNCHANGED avgVars

\* while !coll.is_empty() { coll.pop(); }
Pop ==
    /\ pc = "drain"
    /\ ~is_empty(coll)
    /\ popped' = Append(popped, popValue(coll))
    /\ coll' = pop(coll)
    /\ Tick
    /\ UNCHANGED <<pc, size, variant, next, start, create, ordered, popall,
                   times, stdout, exit, mismatch, defect, ctorAt, createAt, phases,
                   runs, avgCalls>>
    /\ UNCHANGED avgVars

\* let popall = start.elapsed()
EndDrain ==
    /\ pc = "drain"
    /\ is_empty(coll)
    /\ popall' = now - start
    /\ pc' = "return"
    /\ Tick
    /\ UNCHANGED <<size, variant, coll, next, start, create, ordered, times,
                   stdout, exit, mismatch, defect, ctorAt, createAt, popped, phases,
                   runs, avgCalls>>
    /\ UNCHANGED avgVars

\* Times { create, ordered, popall } returned and pushed onto times; a
\* container built inside benchmark_* is dropped
Return ==
    /\ pc = "return"
    /\ times' = Append(times, [create |-> create, ordered |-> ordered,
                               popall |-> popall,
                               by |-> [variant |-> variant,
                                       trial |-> runs[variant],
                                       size |-> size]])
    /\ coll' = IF Fresh(variant) THEN NoColl ELSE coll
    /\ pc' = "loop"
    /\ Tick
    /\ UNCHANGED <<size, variant, next, start, create, ordered, popall, stdout,
                   exit, mismatch, defect, ctorAt, createAt, popped, phases, runs,
                   avgCalls>>
    /\ UNCHANGED avgVars

Column(ts, f) == [i \in 1..Len(ts) |-> ts[i][f]]

AvgCall(ts, f) ==
    [variant |-> variant, phase |-> f, input |-> Column(ts, f),
     from |-> [i \in 1..Len(ts) |-> ts[i].by]]

\* display_average_times(times), then the next block of main or its end
Display ==
    /\ pc = "loop"
    /\ ~MoreTrials(Len(times))
    /\ LET c == compute_average(Column(times, "create"))
           o == compute_average(Column(times, "ordered"))
           p == compute_average(Column(times, "popall"))
       IN  IF c.panic
           THEN /\ avgCalls' = Append(avgCalls, AvgCall(times, "create"))
                /\ pc' = "panicked"
                /\ exit' = "abnormal"
                /\ UNCHANGED <<stdout, variant, coll>>
           ELSE /\ avgCalls' = avgCalls \o <<AvgCall(times, "create"),
                                             AvgCall(times, "ordered"),
                                             AvgCall(times, "popall")>>
                /\ stdout' = Append(stdout,
                                    [kind |-> "summary", create |-> c.value,
                                     ordered |-> o.value, popall |-> p.value])
                /\ IF variant < NumVariants
                   THEN /\ variant' = variant + 1
                        /\ pc' = "announce"
                        /\ UNCHANGED <<exit, coll>>
                   ELSE /\ pc' = "exit"
                        /\ exit' = "normal"
                        /\ coll' = NoColl
                        /\ UNCHANGED variant
    /\ Tick
    /\ UNCHANGED <<size, next, start, create, ordered, popall, times, mismatch, defect,
                   ctorAt, createAt, popped, phases, runs>>
    /\ UNCHANGED avgVars

Next ==
    \/ Announce
    \/ Call
    \/ Construct
    \/ StartCreate
    \/ Push
    \/ EndCreate
    \/ ScanStep
    \/ EndOrdered
    \/ Pop
    \/ EndDrain
    \/ Return
    \/ Display

Spec == Init /\ [][Next]_vars

\* a sequential program takes its next step whenever it has one
FairSpec == Spec /\ WF_vars(Next)

---------------------------------------------------------------------------
(* SpecAvg: compute_average on bounded inputs *)

Durations == 0..MaxDur

\* the spec's end-to-end scenario, [10, 2, 7, 100, 50, 3, 8] ms
Example ==
    <<10 * TicksPerMilli, 2 * TicksPerMilli, 7 * TicksPerMilli,
      100 * TicksPerMilli, 50 * TicksPerMilli, 3 * TicksPerMilli,
      8 * TicksPerMilli>>

Inputs ==
    UNION {[1..n -> Durations] : n \in 0..MaxLen} \cup {Example}

InitAvg ==
    /\ pc = "idle"
    /\ size = 0
    /\ variant = 1
    /\ coll = NoColl
    /\ next = 0
    /\ start = 0
    /\ now = 0
    /\ create = 0
    /\ ordered = 0
    /\ popall = 0
    /\ times = <<>>
    /\ stdout = <<>>
    /\ exit = "running"
    /\ mismatch = FALSE
    /\ defect = FALSE
    /\ ctorAt = 0
    /\ createAt = 0
    /\ popped = <<>>
    /\ phases = <<>>
    /\ runs = [v \in 1..NumVariants |-> 0]
    /\ avgCalls = <<>>
    /\ apc = "call"
    /\ arg \in Inputs
    /\ outcome = Panicked
    /\ alt = <<>>
    /\ altOutcome = Panicked

CallAverage ==
    /\ apc = "call"
    /\ outcome' = compute_average(arg)
    /\ apc' = "done"
    /\ UNCHANGED <<arg, alt, altOutcome>>
    /\ UNCHANGED harnessVars

MinOf(s, idx) == CHOOSE x \in {s[i] : i \in idx} : \A i \in idx : x <= s[i]

MaxOf(s, idx) == CHOOSE x \in {s[i] : i \in idx} : \A i \in idx : x >= s[i]

\* a second call, on arg with one lowest value lowered and the two highest raised
CallPerturbed ==
    /\ apc = "done"
    /\ Len(arg) >= 4
    /\ \E lo, h1, h2 \in DOMAIN arg :
          /\ lo # h1 /\ lo # h2 /\ h1 # h2
          /\ arg[lo] = MinOf(arg, DOMAIN arg)
          /\ arg[h1] = MaxOf(arg, DOMAIN arg)
          /\ arg[h2] = MaxOf(arg, DOMAIN arg \ {h1})
          /\ \E dl \in 0..MaxDelta, d1, d2 \in 0..MaxDelta :
                /\ dl <= arg[lo]
                /\ alt' = [arg EXCEPT ![lo] = @ - dl, ![h1] = @ + d1,
                                      ![h2] = @ + d2]
                /\ altOutcome' = compute_average(alt')
    /\ apc' = "compared"
    /\ UNCHANGED <<arg, outcome>>
    /\ UNCHANGED harnessVars

NextAvg ==
    \/ CallAverage
    \/ CallPerturbed

SpecAvg == InitAvg /\ [][NextAvg]_vars

---------------------------------------------------------------------------
(* Properties of compute_average, checked under SpecAvg *)

AvgReturned == apc \in {"done", "compared"}

RECURSIVE MillisOver(_, _)
MillisOver(s, idx) ==
    IF idx = {} THEN 0
    ELSE LET i == CHOOSE j \in idx : TRUE
         IN  (s[i] \div TicksPerMilli) + MillisOver(s, idx \ {i})

\* the whole-millisecond sum of s without its lowest and its two highest values
TrimmedMillis(s) ==
    LET all == DOMAIN s
        lo == CHOOSE i \in all : \A j \in all : s[i] <= s[j]
        h1 == CHOOSE i \in all \ {lo} : \A j \in all \ {lo} : s[i] >= s[j]
        h2 == CHOOSE i \in all \ {lo, h1} :
                  \A j \in all \ {lo, h1} : s[i] >= s[j]
    IN  MillisOver(s, all \ {lo, h1, h2})

C2_AverageOfRetained ==
    (AvgReturned /\ Len(arg) >= 4) =>
        /\ ~outcome.panic
        /\ outcome.value = TrimmedMillis(arg) \div (Len(arg) - 3)
        /\ \A v \in 0..MaxDur :
              (\A i \in DOMAIN arg : arg[i] = v * TicksPerMilli)
                  => outcome.value = v

C7_InsensitiveToExtremes ==
    apc = "compared" => altOutcome = outcome

C7_Witness ==
    /\ apc = "compared"
    /\ alt # arg
    /\ \E i, j \in DOMAIN arg : i # j /\ arg[i] = arg[j]
    /\ ~outcome.panic
    /\ outcome.value > 0
    /\ altOutcome = outcome

---------------------------------------------------------------------------
(* Properties of the run, checked under Spec and FairSpec *)

Ascending(n) == [i \in 1..n |-> i - 1]

PhaseOrder == <<"create", "ordered", "drain">>

PhaseNames == <<"create", "ordered", "popall">>

IsPrefix(s, t) == Len(s) <= Len(t) /\ s = SubSeq(t, 1, Len(s))

\* C4: an iterator yield that differs from its index aborts the run at that
\* element: the Drain phase of the trial is not executed, no later trial or
\* variant runs, no summary line is printed for this variant or a later one,
\* and the process ends abnormally.
C4_ScanMismatchAborts ==
    /\ mismatch => pc = "panicked"
    /\ pc = "panicked" =>
          /\ mismatch
          /\ exit = "abnormal"
          /\ next < size
          /\ coll.items = Ascending(size)
          /\ popped = <<>>
          /\ phases = <<"create", "ordered">>
          /\ Len(times) = runs[variant] - 1
          /\ \A w \in 1..NumVariants : w > variant => runs[w] = 0
          /\ Len(stdout) = 2 * variant - 1
          /\ stdout[Len(stdout)].kind = "progress"
          /\ ~ENABLED Next

C4_Witness ==
    /\ pc = "panicked"
    /\ exit = "abnormal"
    /\ variant = 5
    /\ runs[variant] = 2
    /\ coll.items = <<0, 1, 2>>
    /\ next = 2

CreateBegins == pc = "create" /\ next = 0

\* C5: in every trial of every variant, the reused containers included, the
\* container is empty when the Create phase begins and holds exactly
\* 0, 1, ..., N-1 in order when it ends; with conforming containers the
\* Ordered-Scan assertion never fails.
C5_CreateFillsEmptyContainer ==
    /\ CreateBegins => coll.items = <<>>
    /\ pc = "ordered" => coll.items = Ascending(size)
    /\ ~defect => pc # "panicked"

C5_Witness ==
    /\ pc = "ordered"
    /\ ~Fresh(variant)
    /\ runs[variant] = Trials
    /\ size = MaxSize
    /\ next = size
    /\ coll.items = Ascending(size)

\* C6: when a benchmark_* call returns, the container is empty, the Drain
\* loop has made exactly N pops, and the values came off as N-1, ..., 0.
C6_DrainPopsAllFromTheEnd ==
    pc = "return" =>
        /\ coll.items = <<>>
        /\ Len(popped) = size
        /\ \A i \in 1..size : popped[i] = size - i

C6_Witness ==
    /\ pc = "return"
    /\ variant = 6
    /\ size = 3
    /\ popped = <<2, 1, 0>>
    /\ coll.items = <<>>

\* C8: each variant is run exactly 7 times with the same size, and each
\* compute_average call of display_average_times receives exactly 7 values,
\* one per trial of that variant and none from another variant.
C8_SevenTrialsPerVariant ==
    /\ \A v \in 1..NumVariants : runs[v] <= 7
    /\ pc \notin {"announce", "exit"} =>
          \A i \in DOMAIN times :
              times[i].by = [variant |-> variant, trial |-> i, size |-> size]
    /\ \A i \in DOMAIN avgCalls :
          LET c == avgCalls[i]
          IN  /\ Len(c.input) = 7
              /\ c.variant = ((i - 1) \div 3) + 1
              /\ c.phase = PhaseNames[((i - 1) % 3) + 1]
              /\ c.from = [j \in 1..7 |->
                              [variant |-> c.variant, trial |-> j,
                               size |-> size]]
    /\ pc = "exit" =>
          /\ \A v \in 1..NumVariants : runs[v] = 7
          /\ Len(avgCalls) = 3 * NumVariants

C8_Witness ==
    /\ pc = "exit"
    /\ Len(avgCalls) = 21
    /\ avgCalls[21].variant = 7
    /\ Len(avgCalls[21].input) = 7

RunOrder ==
    /\ \A i \in DOMAIN stdout :
          IF i % 2 = 1
          THEN stdout[i] = [kind |-> "progress", text |-> Label((i + 1) \div 2)]
          ELSE stdout[i].kind = "summary"
    /\ Len(stdout) = CASE pc = "announce" -> 2 * (variant - 1)
                       [] pc = "exit" -> 2 * NumVariants
                       [] OTHER -> 2 * variant - 1
    /\ \A v \in 1..NumVariants :
          /\ v < variant => runs[v] = Trials
          /\ v > variant => runs[v] = 0
          /\ pc \in {"announce", "exit"} =>
                runs[v] = IF v < variant \/ pc = "exit" THEN Trials ELSE 0
    /\ IsPrefix(phases, PhaseOrder)
    /\ pc = "create" => phases = <<"create">>
    /\ pc = "ordered" => phases = <<"create", "ordered">>
    /\ pc \in {"drain", "return"} => phases = PhaseOrder
    /\ pc = "loop" => Len(times) = runs[variant]

RunDone ==
    /\ pc = "exit"
    /\ exit = "normal"
    /\ Len(stdout) = 14
    /\ Cardinality({i \in DOMAIN stdout : stdout[i].kind = "progress"}) = 7
    /\ Cardinality({i \in DOMAIN stdout : stdout[i].kind = "summary"}) = 7

\* C9: the variants run in the fixed order, each with one progress line before
\* its first trial, all its trials (Create, Ordered-Scan, Drain) before its
\* one summary line, and that line before the next progress line; with
\* conforming containers the process ends normally with 7 progress lines and
\* 7 summary lines.
C9_SequentialAndTerminates ==
    /\ [](pc # "panicked" => RunOrder)
    /\ [](~defect => exit # "abnormal")
    /\ <>(RunDone \/ defect)

C9_Witness ==
    /\ RunDone
    /\ ~defect
    /\ size = MaxSize
    /\ stdout[13].text = "measuring SimpleArray..."

\* C10: in every trial of every variant the container is constructed before
\* the Create timer is started, so construction is outside the timed window.
C10_ConstructedBeforeCreateTimer ==
    pc = "create" => ctorAt < createAt

=============================================================================
